---- MODULE Spec2Model ----
(***************************************************************************)
(* MedCast-Studio: the script-to-document and script-to-speech pipeline.   *)
(*                                                                         *)
(* A script is modelled as the list script.split('\n') of its lines.  A    *)
(* line is a record [k, n]: k is the syntactic class the code's regular    *)
(* expressions and startswith tests can tell apart, n identifies the text  *)
(* the line carries (its position in the script).                          *)
(*   "marker"  === QCM <n> ===                                             *)
(*   "blank"   the empty line ''                                           *)
(*   "sit"     SITUATION: ...          "que"   QUESTION: ...               *)
(*   "optA".."optD"   A) ... D) ...    "ans"   RÉPONSE CORRECTE: ...       *)
(*   "optE"    an option line with no text after 'B)'                      *)
(*   "ansU"    REPONSE CORRECTE: ... (the label without its accent)        *)
(*   "expl"    EXPLICATION: ...        "title" **...** (a bold-only line)  *)
(*   "ptitle"  **Point ...** or **Transition...** (a bold-only line)       *)
(*   "text"    any other non-empty line                                    *)
(*   "ws"      a line of white space only                                  *)
(*   "tbf"     \textbf{...}, what process_markdown makes of a bold line    *)
(*   "tbs"     \textbackslash , what latex_escape makes of a "tbf" line    *)
(*   "hIntro", "hDev", "hConcl", "hQuiz", "hOther"   '# ...' heading lines *)
(*   "h2"      '## ...'                                                    *)
(* A string field (situation, question, ...) is the list of the lines      *)
(* whose text it concatenates; the empty list is the empty string.         *)
(***************************************************************************)
EXTENDS Integers, Sequences, FiniteSets, TLC

VARIABLES
    shape,      \* the units the narrative under test is made of
    script,     \* the argument of _format_script_simple
    body,       \* its return value
    scanned_blocks,      \* its local qcm_blocks when the line scan has ended
    residual_paragraphs, \* its local paragraphs, the text left between the blocks
    pcF,        \* "start" before the call, "done" after
    processed_text, \* what _preprocess_text_for_speech made of the same script
    speech_chunks,  \* what _split_text_for_tts made of processed_text
    pcN,        \* "start" before generate_audio prepares the text, "done" after
    latex_body, \* the body _create_latex_content got for the script
    pcL,        \* "start" before _create_latex_content is called, "done" after
    text,       \* the argument of _split_text_for_tts, a list of characters
    max_chars,  \* its budget
    chunks,     \* its return value
    pcS,        \* "start" before the call, "done" after
    script_txt,     \* the content of the capsule's script.txt
    edited,         \* the user has edited script.txt
    pdf_file,       \* capsule.pdf: "none", "old" (of an earlier run) or "new"
    pdf_txt_file,   \* capsule.txt, the text fallback: "none" or "new"
    formatter_args, \* the arguments _format_script_simple was called with
    pdf_tried,      \* the back ends generate_pdf went through, in order
    typesetting,    \* what pdflatex and reportlab did in generate_pdf, if it ran
    regen_result,   \* what regenerate_pdf returned: "none", "true", "false"
    capsule_mp3,    \* the capsule's capsule.mp3: "none", "old" or "new"
    capsule_call,   \* <<>>, or the one call of regenerate_capsule: its flags,
                    \* whether the capsule's data loaded, the two files before it
    regen_calls,    \* the regenerate_* methods regenerate_capsule called, in order
    capsule_report, \* <<>>, or the result regenerate_capsule returned
    pcR,            \* "idle", "done"
    rows_data,      \* what read_excel returned: the rows of the sheet
    row_i,          \* the rows process_all_capsules has attempted so far
    attempted,      \* the row numbers passed to process_single_capsule, in order
    success_count,
    error_count,
    report,         \* summary_report.txt: "none", "partial" or "written"
    pcB,            \* "loop", "done", "fatal" (the exception left the method)
    client,         \* the Text-to-Speech client exists
    pydub,          \* "ok", "missing" (ImportError) or "error"
    text_chunks,    \* what _split_text_for_tts returned
    requests,       \* the chunks sent to _synthesize_speech, in order
    audio_parts,
    mp3_file,       \* the file at output_path, as a list of pieces; <<>>: no file
    audio_result,   \* what generate_audio returned: "none", "mp3", "txt"
    audio_txt_file, \* the placeholder output_path.with_suffix('.txt'): "none", "new"
    capsule_result, \* what process_single_capsule returned: "none", "true"
    pcA,            \* "start", "synth", "done"
    main_script,    \* the arguments of _assemble_final_script
    qcm_data,
    final_script,   \* what it returned
    pcM             \* "start", "done"

formatVars == <<shape, script, body, scanned_blocks, residual_paragraphs, pcF,
                processed_text, speech_chunks, pcN, latex_body, pcL>>
splitVars  == <<text, max_chars, chunks, pcS>>
regenVars  == <<script_txt, edited, pdf_file, pdf_txt_file, formatter_args,
                pdf_tried, typesetting, regen_result, capsule_mp3, capsule_call,
                regen_calls,
                capsule_report, pcR>>
batchVars  == <<rows_data, row_i, attempted, success_count, error_count, report, pcB>>
audioVars  == <<client, pydub, text_chunks, requests, audio_parts, mp3_file,
                audio_result, audio_txt_file, capsule_result, pcA>>
assembleVars == <<main_script, qcm_data, final_script, pcM>>
vars == <<formatVars, splitVars, regenVars, batchVars, audioVars, assembleVars>>

\* ---------------------------------------------------------------- bounds
MaxUnits  == 4
MaxLen    == 9
MaxBudget == 6
MaxRegenUnits == 2
MaxRows   == 3
MaxChunks == 4
MaxSpeechUnits == 2
MaxSections == 5
MaxQcm    == 4
MaxLatexUnits == 3

\* --------------------------------------- the parts a run leaves untouched
IdleSplit ==
    /\ text = <<>>
    /\ max_chars = 0
    /\ chunks = <<>>
    /\ pcS = "idle"

IdleFormat ==
    /\ shape = <<>>
    /\ script = <<>>
    /\ body = <<>>
    /\ scanned_blocks = <<>>
    /\ residual_paragraphs = <<>>
    /\ pcF = "idle"
    /\ processed_text = <<>>
    /\ speech_chunks = <<>>
    /\ pcN = "idle"
    /\ latex_body = <<>>
    /\ pcL = "off"

IdleRegen ==
    /\ script_txt = <<>>
    /\ edited = FALSE
    /\ pdf_file = "none"
    /\ pdf_txt_file = "none"
    /\ formatter_args = <<>>
    /\ pdf_tried = <<>>
    /\ typesetting = <<>>
    /\ regen_result = "none"
    /\ capsule_mp3 = "none"
    /\ capsule_call = <<>>
    /\ regen_calls = <<>>
    /\ capsule_report = <<>>
    /\ pcR = "off"

IdleBatch ==
    /\ rows_data = <<>>
    /\ row_i = 0
    /\ attempted = <<>>
    /\ success_count = 0
    /\ error_count = 0
    /\ report = "none"
    /\ pcB = "off"

IdleAudio ==
    /\ client = FALSE
    /\ pydub = "ok"
    /\ text_chunks = <<>>
    /\ requests = <<>>
    /\ audio_parts = <<>>
    /\ mp3_file = <<>>
    /\ audio_result = "none"
    /\ audio_txt_file = "none"
    /\ capsule_result = "none"
    /\ pcA = "off"

IdleAssemble ==
    /\ main_script = <<>>
    /\ qcm_data = <<>>
    /\ final_script = <<>>
    /\ pcM = "off"

\* ------------------------------------------------------- narrative inputs
\* "P" a paragraph, "T" a bold title, "QF" a complete quiz block, "QN" one
\* without its explanation, "QE" one without any field; "W" a line of white
\* space, "QL" a block whose answer line comes after the explanation, "QO" one
\* whose option B has no text, "QM" one without its option B; "QU" and "QLU"
\* are "QF" and "QL" with the answer label spelt without its accent; "TP" is
\* a bold title that starts with 'Point ' or 'Transition'.
BaseUnits == {"P", "T", "QF", "QN", "QE"}
Units == BaseUnits \cup {"W", "QL", "QO", "QM"}

UnitLines(u) ==
    CASE u = "P"  -> <<"text">>
      [] u = "T"  -> <<"title">>
      [] u = "QF" -> <<"marker", "blank", "sit", "que", "optA", "optB", "optC",
                       "optD", "blank", "ans", "expl">>
      [] u = "QN" -> <<"marker", "blank", "sit", "que", "optA", "optB", "optC",
                       "optD", "blank", "ans">>
      [] u = "QE" -> <<"marker", "text">>
      [] u = "W"  -> <<"ws">>
      [] u = "QL" -> <<"marker", "blank", "sit", "que", "optA", "optB", "optC",
                       "optD", "blank", "expl", "ans">>
      [] u = "QO" -> <<"marker", "blank", "sit", "que", "optA", "optE", "optC",
                       "optD", "blank", "ans", "expl">>
      [] u = "QM" -> <<"marker", "blank", "sit", "que", "optA", "optC", "optD",
                       "blank", "ans", "expl">>
      [] u = "TP" -> <<"ptitle">>
      [] u = "QU" -> <<"marker", "blank", "sit", "que", "optA", "optB", "optC",
                       "optD", "blank", "ansU", "expl">>
      [] u = "QLU" -> <<"marker", "blank", "sit", "que", "optA", "optB", "optC",
                        "optD", "blank", "expl", "ansU">>
      [] u = "HO" -> <<"hOther">>
      [] u = "HD" -> <<"hDev", "text">>
      [] u = "HQ" -> <<"hQuiz", "h2", "text">>

RECURSIVE JoinUnits(_)
JoinUnits(sh) ==
    IF sh = <<>> THEN <<"blank">>
    ELSE IF Len(sh) = 1 THEN UnitLines(sh[1])
    ELSE UnitLines(sh[1]) \o <<"blank">> \o JoinUnits(Tail(sh))

Narrative(sh) ==
    LET ks == JoinUnits(sh) IN [i \in 1..Len(ks) |-> [k |-> ks[i], n |-> i]]

\* The narratives under test: up to MaxUnits of the base units, one unit less
\* when the rarer ones take part.
Shapes ==
    UNION {[1..m -> BaseUnits] : m \in 0..MaxUnits}
        \cup UNION {[1..m -> Units] : m \in 0..(MaxUnits - 1)}

\* ------------------------------------------------------- line predicates
IsEmptyLine(l)   == l.k = "blank"
IsBlank(l)       == l.k \in {"blank", "ws"}     \* line.strip() is empty
IsMarker(l)      == l.k = "marker"
IsExplication(l) == l.k = "expl"
IsBoldTitle(l)   == l.k \in {"title", "ptitle"}
StartsEq(l)      == l.k = "marker"
IsOption(l)      == l.k \in {"optA", "optB", "optC", "optD", "optE"}
IsAnswer(l)      == l.k \in {"ans", "ansU"}      \* with or without the accent

RECURSIVE StripLeft(_)
StripLeft(ls) ==
    IF ls # <<>> /\ IsBlank(ls[1]) THEN StripLeft(Tail(ls)) ELSE ls

RECURSIVE StripRight(_)
StripRight(ls) ==
    IF ls # <<>> /\ IsBlank(ls[Len(ls)])
    THEN StripRight(SubSeq(ls, 1, Len(ls) - 1)) ELSE ls

Strip(ls) == StripRight(StripLeft(ls))

\* ------------------------------------------ _extract_pure_qcm_from_block
RECURSIVE ExtractLoop(_, _, _)
ExtractLoop(lines, qcm_lines, explanation_found) ==
    IF lines = <<>> THEN qcm_lines
    ELSE LET line == lines[1] IN
        IF IsExplication(line)
        THEN ExtractLoop(Tail(lines), Append(qcm_lines, line), TRUE)
        ELSE IF explanation_found
        THEN IF IsBoldTitle(line) \/ IsMarker(line)
             THEN qcm_lines
             ELSE IF ~IsBlank(line) /\ line.k \notin {"sit", "que", "ans"}
             THEN ExtractLoop(Tail(lines), Append(qcm_lines, line), TRUE)
             ELSE ExtractLoop(Tail(lines), qcm_lines, TRUE)
        ELSE ExtractLoop(Tail(lines), Append(qcm_lines, line), FALSE)

ExtractPureQcmFromBlock(qcm_text) ==
    IF qcm_text = <<>> THEN <<>> ELSE Strip(ExtractLoop(qcm_text, <<>>, FALSE))

\* --------------------------------------------------- _format_qcm_simple
EmptyBox ==
    [situation |-> <<>>, question |-> <<>>, options |-> <<>>,
     correct_answer |-> <<>>, explanation |-> <<>>]

RECURSIVE ParseQcm(_, _, _)
ParseQcm(lines, current_section, f) ==
    IF lines = <<>> THEN f
    ELSE LET line == lines[1]
             rest == Tail(lines) IN
        IF IsBlank(line) \/ IsMarker(line) THEN ParseQcm(rest, current_section, f)
        ELSE IF line.k = "sit"
        THEN ParseQcm(rest, "situation", [f EXCEPT !.situation = <<line>>])
        ELSE IF line.k = "que"
        THEN ParseQcm(rest, "question", [f EXCEPT !.question = <<line>>])
        ELSE IF IsOption(line)
        THEN ParseQcm(rest, "options", [f EXCEPT !.options = Append(@, line)])
        ELSE IF IsAnswer(line)
        THEN ParseQcm(rest, "answer", [f EXCEPT !.correct_answer = <<line>>])
        ELSE IF line.k = "expl"
        THEN ParseQcm(rest, "explanation", [f EXCEPT !.explanation = <<line>>])
        ELSE IF current_section = "situation" /\ f.situation # <<>>
        THEN ParseQcm(rest, current_section, [f EXCEPT !.situation = Append(@, line)])
        ELSE IF current_section = "question" /\ f.question # <<>>
        THEN ParseQcm(rest, current_section, [f EXCEPT !.question = Append(@, line)])
        ELSE ParseQcm(rest, current_section, f)

FormatQcmSimple(qcm_text) ==
    IF qcm_text = <<>> THEN EmptyBox ELSE ParseQcm(qcm_text, "", EmptyBox)

\* ------------------------- _format_script_simple: removal of the artefacts
\* re.sub(r'\\textbackslash\s*', ' ', script): the artefact goes with all the
\* white space after it, line breaks included, and a space takes its place, so
\* the next non-blank line starts where the artefact stood.
RECURSIVE CleanArtifacts(_)
CleanArtifacts(lines) ==
    IF lines = <<>> THEN <<>>
    ELSE IF lines[1].k = "tbs"
    THEN LET rest == StripLeft(Tail(lines)) IN
         IF rest = <<>> THEN <<[k |-> "ws", n |-> lines[1].n]>>
         ELSE IF rest[1].k = "tbs" THEN CleanArtifacts(rest)
         ELSE <<rest[1]>> \o CleanArtifacts(Tail(rest))
    ELSE <<lines[1]>> \o CleanArtifacts(Tail(lines))

\* ------------------------------------ _format_script_simple: the line scan
\* Indices i, start_line, end_line are the code's 0-based indices.
RECURSIVE CollectQcm(_, _, _, _)
CollectQcm(full_script_lines, i, qcm_lines, found_explanation) ==
    IF i >= Len(full_script_lines) THEN [i |-> i, qcm_lines |-> qcm_lines]
    ELSE LET current_line == full_script_lines[i + 1]
             last == (i = Len(full_script_lines) - 1) IN
        IF IsExplication(current_line)
        THEN CollectQcm(full_script_lines, i + 1, Append(qcm_lines, current_line), TRUE)
        ELSE IF found_explanation
                /\ (IsBoldTitle(current_line) \/ StartsEq(current_line) \/ last)
        THEN [i |-> i,
              qcm_lines |-> IF last THEN Append(qcm_lines, current_line) ELSE qcm_lines]
        ELSE CollectQcm(full_script_lines, i + 1, Append(qcm_lines, current_line),
                        found_explanation)

RECURSIVE ScanQcmBlocks(_, _, _)
ScanQcmBlocks(full_script_lines, i, qcm_blocks) ==
    IF i >= Len(full_script_lines) THEN qcm_blocks
    ELSE LET line == full_script_lines[i + 1] IN
        IF IsMarker(line)
        THEN LET c == CollectQcm(full_script_lines, i + 1, <<line>>, FALSE)
                 qcm_pure == ExtractPureQcmFromBlock(c.qcm_lines) IN
             ScanQcmBlocks(full_script_lines, c.i,
                 IF qcm_pure # <<>>
                 THEN Append(qcm_blocks, [content |-> qcm_pure,
                                          full_text |-> c.qcm_lines,
                                          start_line |-> i, end_line |-> c.i])
                 ELSE qcm_blocks)
        ELSE ScanQcmBlocks(full_script_lines, i + 1, qcm_blocks)

\* ------------------------- _format_script_simple: removal of the QCM spans
\* The same deleting the line at the end index too.
DelSlice_Inclusive(ls, from, to) ==
    IF from >= to THEN ls
    ELSE SubSeq(ls, 1, from) \o SubSeq(ls, to + 2, Len(ls))

DelSlice(ls, from, to) ==
    IF from >= to THEN ls
    ELSE SubSeq(ls, 1, from) \o SubSeq(ls, to + 1, Len(ls))

Reverse(s) == [j \in 1..Len(s) |-> s[Len(s) + 1 - j]]

RECURSIVE RemoveBlocks(_, _)
RemoveBlocks(remaining_lines, reversed_blocks) ==
    IF reversed_blocks = <<>> THEN remaining_lines
    ELSE RemoveBlocks(DelSlice(remaining_lines, reversed_blocks[1].start_line,
                               reversed_blocks[1].end_line),
                      Tail(reversed_blocks))

\* The same without the final qcm_data_for_boxes.reverse().
QcmDataForBoxes_NoReverse(qcm_blocks) ==
    LET rev == Reverse(qcm_blocks)
    IN [j \in 1..Len(rev) |-> rev[j].content]

QcmDataForBoxes(qcm_blocks) ==
    LET rev == Reverse(qcm_blocks)
        appended == [j \in 1..Len(rev) |-> rev[j].content]
    IN Reverse(appended)

\* ------------------------------ _format_script_simple: the paragraph split
\* main_content.split('\n\n'), each piece stripped, empty pieces left out:
\* the maximal runs of non-empty lines; re.sub(r'\s+', ' ', paragraph) then
\* leaves nothing of the white-space lines inside a run.
RECURSIVE SplitParagraphs(_, _, _)
SplitParagraphs(lines, cur, acc) ==
    IF lines = <<>> THEN (IF cur = <<>> THEN acc ELSE Append(acc, cur))
    ELSE IF IsEmptyLine(lines[1])
    THEN SplitParagraphs(Tail(lines), <<>>, IF cur = <<>> THEN acc ELSE Append(acc, cur))
    ELSE IF IsBlank(lines[1])
    THEN SplitParagraphs(Tail(lines), cur, acc)
    ELSE SplitParagraphs(Tail(lines), Append(cur, lines[1]), acc)

\* --------------------------- _format_script_simple: rendering, redistribution
Item(t, lines, box) == [t |-> t, lines |-> lines, box |-> box]

RenderParagraph(paragraph) ==
    IF IsBoldTitle(paragraph[1]) /\ IsBoldTitle(paragraph[Len(paragraph)])
    THEN Item(IF paragraph[1].k = "ptitle" THEN "subsection" ELSE "textbf",
              paragraph, EmptyBox)
    ELSE Item("para", paragraph, EmptyBox)

QcmBox(qcm_content) == Item("qcmbox", <<>>, FormatQcmSimple(Strip(qcm_content)))

Max(a, b) == IF a >= b THEN a ELSE b

InsertHere(i, nparagraphs, nboxes) ==
    i > 0 /\ (i + 1) % Max(1, nparagraphs \div (nboxes + 1)) = 0

RECURSIVE ParagraphLoop(_, _, _, _, _)
ParagraphLoop(paragraphs, i, boxes, qcm_inserted, formatted_content) ==
    IF i >= Len(paragraphs)
    THEN [formatted_content |-> formatted_content, qcm_inserted |-> qcm_inserted]
    ELSE LET withPara == Append(formatted_content, RenderParagraph(paragraphs[i + 1])) IN
        IF qcm_inserted < Len(boxes) /\ InsertHere(i, Len(paragraphs), Len(boxes))
        THEN ParagraphLoop(paragraphs, i + 1, boxes, qcm_inserted + 1,
                           Append(withPara, QcmBox(boxes[qcm_inserted + 1])))
        ELSE ParagraphLoop(paragraphs, i + 1, boxes, qcm_inserted, withPara)

\* The same without the blocks left over when the paragraphs run out.
RemainingBoxes_None(boxes, qcm_inserted) == <<>>

RemainingBoxes(boxes, qcm_inserted) ==
    [j \in 1..(Len(boxes) - qcm_inserted) |-> QcmBox(boxes[qcm_inserted + j])]

\* The locals qcm_blocks and paragraphs of a call; the call on the empty
\* string returns before it assigns them.
QcmBlocksOf(s) ==
    IF s = <<[k |-> "blank", n |-> 1]>> THEN <<>>
    ELSE ScanQcmBlocks(CleanArtifacts(s), 0, <<>>)

ParagraphsOf(s) ==
    IF s = <<[k |-> "blank", n |-> 1]>> THEN <<>>
    ELSE SplitParagraphs(RemoveBlocks(CleanArtifacts(s), Reverse(QcmBlocksOf(s))),
                         <<>>, <<>>)

FormatScriptSimple(s) ==
    IF s = <<[k |-> "blank", n |-> 1]>>
    THEN <<Item("unavailable", <<>>, EmptyBox)>>
    ELSE LET qcm_data_for_boxes == QcmDataForBoxes(QcmBlocksOf(s))
             r == ParagraphLoop(ParagraphsOf(s), 0, qcm_data_for_boxes, 0, <<>>)
         IN r.formatted_content \o RemainingBoxes(qcm_data_for_boxes, r.qcm_inserted)

\* ------------------------------------------------------- _split_text_for_tts
\* A string is the list of its characters: "a" a letter, "." a sentence end,
\* " " white space.
Alphabet == {"a", ".", " "}
IsSpace(c) == c = " "
IsSentenceEnd(c) == c \in {".", "!", "?"}

Texts == UNION {[1..m -> Alphabet] : m \in 0..MaxLen}

RECURSIVE LStrip(_)
LStrip(t) == IF t # <<>> /\ IsSpace(t[1]) THEN LStrip(Tail(t)) ELSE t

RECURSIVE RStrip(_)
RStrip(t) ==
    IF t # <<>> /\ IsSpace(t[Len(t)]) THEN RStrip(SubSeq(t, 1, Len(t) - 1)) ELSE t

StrStrip(t) == RStrip(LStrip(t))

\* re.split(r'(?<=[.!?])\s+', text)
RECURSIVE SplitSentences(_, _, _)
SplitSentences(t, cur, acc) ==
    IF t = <<>> THEN Append(acc, cur)
    ELSE IF IsSpace(t[1]) /\ cur # <<>> /\ IsSentenceEnd(cur[Len(cur)])
    THEN SplitSentences(LStrip(t), <<>>, Append(acc, cur))
    ELSE SplitSentences(Tail(t), Append(cur, t[1]), acc)

\* str.split()
RECURSIVE SplitWords(_, _, _)
SplitWords(t, cur, acc) ==
    IF t = <<>> THEN (IF cur = <<>> THEN acc ELSE Append(acc, cur))
    ELSE IF IsSpace(t[1])
    THEN SplitWords(Tail(t), <<>>, IF cur = <<>> THEN acc ELSE Append(acc, cur))
    ELSE SplitWords(Tail(t), Append(cur, t[1]), acc)

\* The same cutting every word into its characters.
Words_Characters(t) ==
    LET letters == SelectSeq(t, LAMBDA c : ~IsSpace(c))
    IN [i \in 1..Len(letters) |-> <<letters[i]>>]

Words(t) == SplitWords(t, <<>>, <<>>)

\* The word loop of an over-long sentence; st = [chunks, cwc].
RECURSIVE WordLoop(_, _, _)
WordLoop(words, st, maxc) ==
    IF words = <<>> THEN st
    ELSE LET word == words[1] IN
        IF Len(st.cwc) + Len(word) + 1 <= maxc
        THEN WordLoop(Tail(words), [st EXCEPT !.cwc = @ \o word \o <<" ">>], maxc)
        ELSE WordLoop(Tail(words),
                      [chunks |-> IF st.cwc # <<>>
                                  THEN Append(st.chunks, StrStrip(st.cwc))
                                  ELSE st.chunks,
                       cwc |-> word \o <<" ">>],
                      maxc)

\* The same without the length test: the word chunk is always merged.
WordChunkFits_NoTest(current_chunk, current_word_chunk, maxc) == TRUE

WordChunkFits(current_chunk, current_word_chunk, maxc) ==
    Len(current_chunk) + Len(current_word_chunk) <= maxc

\* The sentence loop; st = [chunks, current_chunk].
RECURSIVE SentenceLoop(_, _, _)
SentenceLoop(sentences, st, maxc) ==
    IF sentences = <<>> THEN st
    ELSE LET sentence == sentences[1]
             rest == Tail(sentences) IN
        IF Len(sentence) > maxc
        THEN LET w == WordLoop(Words(sentence), [chunks |-> st.chunks, cwc |-> <<>>], maxc) IN
             IF w.cwc # <<>>
             THEN IF WordChunkFits(st.current_chunk, w.cwc, maxc)
                  THEN SentenceLoop(rest, [chunks |-> w.chunks,
                                           current_chunk |-> st.current_chunk \o w.cwc], maxc)
                  ELSE SentenceLoop(rest,
                           [chunks |-> IF st.current_chunk # <<>>
                                       THEN Append(w.chunks, StrStrip(st.current_chunk))
                                       ELSE w.chunks,
                            current_chunk |-> w.cwc], maxc)
             ELSE SentenceLoop(rest, [chunks |-> w.chunks,
                                      current_chunk |-> st.current_chunk], maxc)
        ELSE IF Len(st.current_chunk) + Len(sentence) + 1 <= maxc
        THEN SentenceLoop(rest, [st EXCEPT !.current_chunk = @ \o sentence \o <<" ">>], maxc)
        ELSE SentenceLoop(rest,
                 [chunks |-> IF st.current_chunk # <<>>
                             THEN Append(st.chunks, StrStrip(st.current_chunk))
                             ELSE st.chunks,
                  current_chunk |-> sentence \o <<" ">>], maxc)

\* The same without the split: the text is returned as its only chunk.
SplitTextForTts_NoSplit(t, maxc) == <<t>>

SplitTextForTts(t, maxc) ==
    IF Len(t) <= maxc THEN <<t>>
    ELSE LET r == SentenceLoop(SplitSentences(t, <<>>, <<>>),
                               [chunks |-> <<>>, current_chunk |-> <<>>], maxc)
         IN IF r.current_chunk # <<>>
            THEN Append(r.chunks, StrStrip(r.current_chunk))
            ELSE r.chunks

\* ----------------------------------------------- _preprocess_text_for_speech
\* Here a text is the list of its tokens [c, n].  Tokens of a script:
\*   "nl" a line break, "sp" a space, "w" a word (n names it), "dot" '.',
\*   "semi" ';', "bold" '**', "MARKER" '=== QCM <n> ===', "SIT" 'SITUATION:',
\*   "QUE" 'QUESTION:', "ANS" 'RÉPONSE CORRECTE:', "ANSU" 'REPONSE CORRECTE:',
\*   "EXPL" 'EXPLICATION:', "OPT" 'A)'..'D)' (n = 1..4).
\* Tokens the normalizer writes:
\*   "intro" 'Maintenant, testons vos connaissances avec un Q.C.M' (a "dot"
\*   follows it), "sitL" 'Voici une situation pratique :', "queL" 'Question :',
\*   "ansL" 'La bonne réponse est :', "explL" 'Explication :', "optL"
\*   'Option A :'..'Option D :', "br" '<break time="..."/>' (n in milliseconds).
Tok(c, n) == [c |-> c, n |-> n]
NL   == Tok("nl", 0)
SP   == Tok("sp", 0)
DOT  == Tok("dot", 0)
SEMI == Tok("semi", 0)
BOLD == Tok("bold", 0)
Break(ms) == Tok("br", ms)
IsWs(t) == t.c \in {"nl", "sp"}
NotBold(t) == t.c # "bold"

OptionLetter(l) ==
    CASE l.k = "optA" -> 1 [] l.k = "optB" -> 2 [] l.k = "optE" -> 2
      [] l.k = "optC" -> 3 [] l.k = "optD" -> 4

\* The text of a line of the script.
LineTokens(l) ==
    CASE l.k = "blank"  -> <<>>
      [] l.k = "ws"     -> <<SP>>
      [] l.k = "marker" -> <<Tok("MARKER", l.n)>>
      [] l.k = "sit"    -> <<Tok("SIT", 0), SP, Tok("w", l.n)>>
      [] l.k = "que"    -> <<Tok("QUE", 0), SP, Tok("w", l.n)>>
      [] l.k = "optE"   -> <<Tok("OPT", OptionLetter(l))>>
      [] l.k \in {"optA", "optB", "optC", "optD"}
                        -> <<Tok("OPT", OptionLetter(l)), SP, Tok("w", l.n)>>
      [] l.k = "ans"    -> <<Tok("ANS", 0), SP, Tok("w", l.n)>>
      [] l.k = "ansU"   -> <<Tok("ANSU", 0), SP, Tok("w", l.n)>>
      [] l.k = "expl"   -> <<Tok("EXPL", 0), SP, Tok("w", l.n)>>
      [] l.k \in {"title", "ptitle"} -> <<BOLD, Tok("w", l.n), BOLD>>
      [] l.k = "text"   -> <<Tok("w", l.n), SEMI, SP, Tok("w", l.n), DOT>>
      [] OTHER          -> <<Tok("w", l.n)>>

\* The concatenation of a list of texts (by halves, to keep the nesting low).
RECURSIVE Flat(_)
Flat(ss) ==
    IF ss = <<>> THEN <<>>
    ELSE IF Len(ss) = 1 THEN ss[1]
    ELSE LET h == Len(ss) \div 2 IN
         Flat(SubSeq(ss, 1, h)) \o Flat(SubSeq(ss, h + 1, Len(ss)))

\* '\n'.join(lines)
ScriptText(lines) ==
    Flat([i \in 1..Len(lines) |->
            LineTokens(lines[i]) \o (IF i < Len(lines) THEN <<NL>> ELSE <<>>)])

\* Token i stands in the white space that directly follows a token of class c.
RECURSIVE AfterLabel(_, _, _)
AfterLabel(t, i, c) ==
    i > 1 /\ (t[i - 1].c = c \/ (IsWs(t[i - 1]) /\ AfterLabel(t, i - 1, c)))

\* re.sub(r'<label>\s*', replacement, text): the label goes with the white
\* space after it.
SubLabel(t, c, replacement) ==
    Flat([i \in 1..Len(t) |->
            IF t[i].c = c THEN replacement
            ELSE IF IsWs(t[i]) /\ AfterLabel(t, i, c) THEN <<>>
            ELSE <<t[i]>>])

\* re.sub(r'\nA\)\s*', '\nOption A : ', text), likewise B, C, D: the option
\* at i matches when a line break stands before it that an earlier match has
\* not taken as its trailing white space.
RECURSIVE OptionMatches(_, _, _)
RECURSIVE WsAfterOption(_, _, _)
OptionMatches(t, i, letter) ==
    /\ t[i] = Tok("OPT", letter)
    /\ i > 1
    /\ t[i - 1] = NL
    /\ ~WsAfterOption(t, i - 1, letter)

\* Token i stands in the white space a matching option takes with it.
WsAfterOption(t, i, letter) ==
    /\ IsWs(t[i])
    /\ i > 2
    /\ \/ OptionMatches(t, i - 1, letter)
       \/ WsAfterOption(t, i - 1, letter)

SubOption(t, letter) ==
    Flat([i \in 1..Len(t) |->
            IF OptionMatches(t, i, letter) THEN <<Tok("optL", letter), SP>>
            ELSE IF WsAfterOption(t, i, letter) THEN <<>>
            ELSE <<t[i]>>])

\* re.sub(r'La bonne réponse est :', '<break time="2s"/>La bonne réponse est :', text)
SubPause(t, c, ms) ==
    Flat([i \in 1..Len(t) |-> IF t[i].c = c THEN <<Break(ms), t[i]>> ELSE <<t[i]>>])

\* re.sub(r'\.(\s+)', '.<break time="0.5s"/>\\1', text), likewise ';'.
SubPunctuation(t, c, ms) ==
    Flat([i \in 1..Len(t) |->
            IF t[i].c = c /\ i < Len(t) /\ IsWs(t[i + 1])
            THEN <<t[i], Break(ms)>> ELSE <<t[i]>>])

\* re.sub(r'\s+', ' ', text).strip()
CollapseWs(t) ==
    LET nonWs == {i \in 1..Len(t) : ~IsWs(t[i])}
        first == IF nonWs = {} THEN Len(t) + 1
                 ELSE CHOOSE i \in nonWs : \A j \in nonWs : i <= j
        last  == IF nonWs = {} THEN 0
                 ELSE CHOOSE i \in nonWs : \A j \in nonWs : j <= i
    IN Flat([i \in 1..Len(t) |->
                IF ~IsWs(t[i]) THEN <<t[i]>>
                ELSE IF i < first \/ i > last \/ IsWs(t[i - 1]) THEN <<>>
                ELSE <<SP>>])

\* The new lines of the white space around token i: Before counts those up to
\* and including i, After those from i on.
RECURSIVE NlBefore(_, _)
NlBefore(t, i) ==
    IF i < 1 \/ ~IsWs(t[i]) THEN 0
    ELSE (IF t[i].c = "nl" THEN 1 ELSE 0) + NlBefore(t, i - 1)

RECURSIVE NlAfter(_, _)
NlAfter(t, i) ==
    IF i > Len(t) \/ ~IsWs(t[i]) THEN 0
    ELSE (IF t[i].c = "nl" THEN 1 ELSE 0) + NlAfter(t, i + 1)

\* re.sub(r'\n\s*\n\s*\n+', '\n\n', text): in white space with three new lines
\* or more, what lies from the first new line to the last becomes two.
CollapseNewlines(t) ==
    Flat([i \in 1..Len(t) |->
            IF ~IsWs(t[i]) THEN <<t[i]>>
            ELSE LET before == NlBefore(t, i)
                     after == NlAfter(t, i)
                     nls == before + after - (IF t[i].c = "nl" THEN 1 ELSE 0) IN
                 IF nls < 3 \/ before = 0 \/ after = 0 THEN <<t[i]>>
                 ELSE IF t[i].c = "nl" /\ before = 1 THEN <<NL, NL>>
                 ELSE <<>>])

PreprocessTextForSpeech(t) ==
    LET t1 == SubLabel(t, "MARKER", <<NL, NL, Tok("intro", 0), DOT, NL, NL>>)
        t2 == SubLabel(t1, "SIT", <<Tok("sitL", 0), SP>>)
        t3 == SubLabel(t2, "QUE", <<Tok("queL", 0), SP>>)
        t4 == SubLabel(t3, "ANS", <<NL, NL, Tok("ansL", 0), SP>>)
        t5 == SubLabel(t4, "ANSU", <<NL, NL, Tok("ansL", 0), SP>>)
        t6 == SubLabel(t5, "EXPL", <<NL, NL, Tok("explL", 0), SP>>)
        t7 == SelectSeq(t6, NotBold)
        t8 == SubOption(SubOption(SubOption(SubOption(t7, 1), 2), 3), 4)
        t9 == SubPause(SubPause(t8, "ansL", 2000), "explL", 1000)
        t10 == SubPunctuation(SubPunctuation(t9, "dot", 500), "semi", 300)
    IN CollapseNewlines(CollapseWs(t10))

\* The characters of a text of tokens, as _split_text_for_tts tells them apart.
TokenChars(x) ==
    CASE IsWs(x)      -> <<" ">>
      [] x.c = "dot"  -> <<".">>
      [] x.c = "br"   -> <<"<", " ", ">">>     \* '<break' and 'time="..."/>'
      [] x.c \in {"intro", "sitL", "queL", "ansL", "explL", "optL"}
                      -> <<"a", " ", "a">>
      [] OTHER        -> <<"a">>

SpeechChars(t) == Flat([i \in 1..Len(t) |-> TokenChars(t[i])])

\* def _split_text_for_tts(self, text, max_chars: int = 4000)
DefaultMaxChars == 4000

\* ------------------------------------------------------- the splitter run
\* The texts generate_audio gives the splitter: normalized narratives.
SpeechShapes == UNION {[1..m -> {"P", "T", "QE"}] : m \in 1..MaxSpeechUnits}
SpeechTexts ==
    {SpeechChars(PreprocessTextForSpeech(ScriptText(Narrative(sh)))) : sh \in SpeechShapes}

InitSplit ==
    /\ text \in Texts \cup SpeechTexts
    /\ max_chars \in 1..MaxBudget
    /\ chunks = <<>>
    /\ pcS = "start"
    /\ IdleFormat
    /\ IdleRegen
    /\ IdleBatch
    /\ IdleAudio
    /\ IdleAssemble

CallSplitTextForTts ==
    /\ pcS = "start"
    /\ chunks' = SplitTextForTts(text, max_chars)
    /\ pcS' = "done"
    /\ UNCHANGED <<text, max_chars, formatVars, regenVars, batchVars, audioVars,
                   assembleVars>>

NextSplit == CallSplitTextForTts

SpecSplit == InitSplit /\ [][NextSplit]_vars

\* ------------------------------------------- _create_latex_content (helpers)
EmptyString == <<[k |-> "blank", n |-> 1]>>

\* process_markdown: **texte** -> \textbf{texte}
ProcessMarkdown(lines) ==
    [i \in 1..Len(lines) |->
        IF IsBoldTitle(lines[i]) THEN [k |-> "tbf", n |-> lines[i].n] ELSE lines[i]]

RECURSIVE BlankPrefix(_)
BlankPrefix(lines) ==
    IF lines # <<>> /\ IsBlank(lines[1]) THEN <<lines[1]>> \o BlankPrefix(Tail(lines))
    ELSE <<>>

\* re.sub(r'\n\s*\n', '\n\n', text) on one run of blank lines.
CollapseRun(run, atStart, atEnd) ==
    LET m == Len(run)
        empty == [k |-> "blank", n |-> run[1].n] IN
    IF ~atStart /\ ~atEnd THEN <<empty>>
    ELSE IF atStart /\ ~atEnd THEN (IF m >= 2 THEN <<run[1], empty>> ELSE run)
    ELSE IF ~atStart /\ atEnd THEN (IF m >= 2 THEN <<empty, run[m]>> ELSE run)
    ELSE (IF m >= 3 THEN <<run[1], empty, run[m]>> ELSE run)

RECURSIVE CollapseBlankLines(_, _)
CollapseBlankLines(lines, atStart) ==
    IF lines = <<>> THEN <<>>
    ELSE IF ~IsBlank(lines[1])
    THEN <<lines[1]>> \o CollapseBlankLines(Tail(lines), FALSE)
    ELSE LET run == BlankPrefix(lines)
             rest == SubSeq(lines, Len(run) + 1, Len(lines)) IN
         CollapseRun(run, atStart, rest = <<>>) \o CollapseBlankLines(rest, FALSE)

\* latex_escape: textbf{...} is deleted and the backslash left of it becomes
\* \textbackslash ; the runs of blank lines are collapsed.
LatexEscape(lines) ==
    IF lines = EmptyString THEN EmptyString
    ELSE CollapseBlankLines(
            [i \in 1..Len(lines) |->
                IF lines[i].k = "tbf" THEN [k |-> "tbs", n |-> lines[i].n] ELSE lines[i]],
            TRUE)

\* dict.get(key, default)
Get(d, key, default) == IF key \in DOMAIN d THEN d[key] ELSE default

\* The script that _create_latex_content hands to _format_script_simple.
CreateLatexContentScript(script_data) ==
    LatexEscape(ProcessMarkdown(Get(script_data, "script", EmptyString)))

\* ------------------------------------------------------ parse_script_content
IsH1(l) == l.k \in {"hIntro", "hDev", "hConcl", "hQuiz", "hOther"}

SectionOfHeading(l) ==
    CASE l.k = "hIntro" -> "introduction"
      [] l.k = "hDev"   -> "development"
      [] l.k = "hConcl" -> "conclusion"
      [] l.k = "hQuiz"  -> "quiz"
      [] OTHER          -> ""

\* script_data['quiz'] is the list it starts as, until a '# ' line that ends a
\* quiz section assigns the section's text to it.
QuizList(items) == [isList |-> TRUE, items |-> items]
QuizText(t)     == [isList |-> FALSE, items |-> <<t>>]

SetSection(sd, section, content) ==
    IF section = "quiz" THEN [sd EXCEPT !.quiz = QuizText(content)]
    ELSE [sd EXCEPT ![section] = content]

\* st = [sd, cs (current_section, "" for None), cc (current_content), exc]
RECURSIVE ParseLines(_, _)
ParseLines(lines, st) ==
    IF lines = <<>> \/ st.exc THEN st
    ELSE LET line == lines[1]
             rest == Tail(lines) IN
        IF IsH1(line)
        THEN LET sd1 == IF st.cs # "" THEN SetSection(st.sd, st.cs, Strip(st.cc)) ELSE st.sd
                 sd2 == IF SectionOfHeading(line) = ""
                        THEN [sd1 EXCEPT !.title = <<line>>] ELSE sd1 IN
             ParseLines(rest, [sd |-> sd2, cs |-> SectionOfHeading(line),
                               cc |-> <<>>, exc |-> FALSE])
        ELSE IF line.k = "h2" /\ st.cs = "quiz"
        THEN IF st.cc # <<>>
             THEN IF st.sd.quiz.isList
                  THEN ParseLines(rest,
                          [st EXCEPT !.sd.quiz = QuizList(Append(st.sd.quiz.items, Strip(st.cc))),
                                     !.cc = <<line>>])
                  ELSE [st EXCEPT !.exc = TRUE]
             ELSE ParseLines(rest, [st EXCEPT !.cc = <<line>>])
        ELSE IF st.cs # ""
        THEN ParseLines(rest, [st EXCEPT !.cc = Append(@, line)])
        ELSE ParseLines(rest, st)

ParseScriptContent(script_content) ==
    LET script_data == [title |-> <<>>, introduction |-> <<>>, development |-> <<>>,
                        conclusion |-> <<>>, quiz |-> QuizList(<<>>)]
        st == ParseLines(script_content,
                         [sd |-> script_data, cs |-> "", cc |-> <<>>, exc |-> FALSE])
        raised == st.exc \/ (st.cs = "quiz" /\ st.cc # <<>> /\ ~st.sd.quiz.isList)
    IN IF raised THEN [st.sd EXCEPT !.development = script_content]
       ELSE IF st.cs # "" /\ st.cc # <<>>
       THEN IF st.cs = "quiz"
            THEN [st.sd EXCEPT !.quiz = QuizList(Append(st.sd.quiz.items, Strip(st.cc)))]
            ELSE SetSection(st.sd, st.cs, Strip(st.cc))
       ELSE st.sd

\* ------------------------------------------------------------- generate_pdf
\* What the typesetting environment does:
\*   latex      "absent"  pdflatex cannot be run
\*              "ok"      both passes run and capsule.pdf is there
\*              "fail"    the first pass returns a non-zero code
\*              "timeout" a pass runs out of time
\*              "nopdf"   the passes return but leave no capsule.pdf
\*   reportlab  "present", "absent" (ImportError), "error" (doc.build raises)
LatexOutcomes == {"absent", "ok", "fail", "timeout", "nopdf"}
ReportlabOutcomes == {"present", "absent", "error"}

CreateTextFallback(tried, args) ==
    [path |-> "txt", tried |-> Append(tried, "text"), formatter_args |-> args]

GeneratePdfFallback(script_data, reportlab, tried, args) ==
    IF reportlab = "present"
    THEN [path |-> "pdf", tried |-> Append(tried, "reportlab"), formatter_args |-> args]
    ELSE CreateTextFallback(Append(tried, "reportlab"), args)

\* The same going to the text fallback as soon as the compilation fails.
GeneratePdfLatex_NoReportlab(script_data, latex, reportlab) ==
    LET args == <<CreateLatexContentScript(script_data)>> IN
    IF latex = "ok"
    THEN [path |-> "pdf", tried |-> <<"latex">>, formatter_args |-> args]
    ELSE CreateTextFallback(<<"latex">>, args)

GeneratePdfLatex(script_data, latex, reportlab) ==
    LET args == <<CreateLatexContentScript(script_data)>> IN
    IF latex = "fail" THEN GeneratePdfFallback(script_data, reportlab, <<"latex">>, args)
    ELSE IF latex = "ok"
    THEN [path |-> "pdf", tried |-> <<"latex">>, formatter_args |-> args]
    ELSE CreateTextFallback(<<"latex">>, args)

GeneratePdf(script_data, latex, reportlab) ==
    IF latex # "absent" THEN GeneratePdfLatex(script_data, latex, reportlab)
    ELSE GeneratePdfFallback(script_data, reportlab, <<>>, <<>>)

\* ------------------------------------------------- the regeneration of a PDF
RegenUnits == {"P", "T", "QF", "HO", "HD", "HQ"}
RegenShapes == UNION {[1..m -> RegenUnits] : m \in 1..MaxRegenUnits}
ScriptFiles == {Narrative(sh) : sh \in RegenShapes}

InitRegen ==
    /\ script_txt \in ScriptFiles
    /\ edited = FALSE
    /\ pdf_file \in {"none", "old"}
    /\ pdf_txt_file = "none"
    /\ formatter_args = <<>>
    /\ pdf_tried = <<>>
    /\ typesetting = <<>>
    /\ regen_result = "none"
    /\ capsule_mp3 \in {"none", "old"}
    /\ capsule_call = <<>>
    /\ regen_calls = <<>>
    /\ capsule_report = <<>>
    /\ pcR = "idle"
    /\ IdleFormat
    /\ IdleSplit
    /\ IdleBatch
    /\ IdleAudio
    /\ IdleAssemble

\* The user rewrites script.txt by hand.
EditScript ==
    /\ pcR = "idle"
    /\ ~edited
    /\ \E new \in ScriptFiles : new # script_txt /\ script_txt' = new
    /\ edited' = TRUE
    /\ UNCHANGED <<pdf_file, pdf_txt_file, formatter_args, pdf_tried, typesetting,
                   regen_result,
                   capsule_mp3, capsule_call, regen_calls, capsule_report,
                   pcR, formatVars, splitVars, batchVars, audioVars,
                   assembleVars>>

\* regenerate_pdf: the old capsule.pdf is deleted, generate_pdf runs.
RegeneratePdfCall ==
    \E latex \in LatexOutcomes, reportlab \in ReportlabOutcomes :
        LET capsule_data == [script_content |-> script_txt]
            script_data == ParseScriptContent(capsule_data.script_content)
            r == GeneratePdf(script_data, latex, reportlab)
        IN /\ pdf_file' = IF r.path = "pdf" THEN "new" ELSE "none"
           /\ pdf_txt_file' = IF r.path = "txt" THEN "new" ELSE pdf_txt_file
           /\ formatter_args' = r.formatter_args
           /\ pdf_tried' = r.tried
           /\ typesetting' = <<[latex |-> latex, reportlab |-> reportlab]>>
           /\ regen_result' = "true"

\* load_capsule_data, then regenerate_pdf.
RegeneratePdf ==
    /\ pcR = "idle"
    /\ RegeneratePdfCall
    /\ pcR' = "done"
    /\ UNCHANGED <<script_txt, edited, capsule_mp3, capsule_call, regen_calls,
                   capsule_report, formatVars, splitVars, batchVars, audioVars,
                   assembleVars>>

\* regenerate_audio: the old capsule.mp3 is deleted, generate_audio runs and
\* leaves the audio file or its placeholder; either way the path it returns
\* exists.
RegenerateAudioCall ==
    \E written \in {"mp3", "txt"} :
        capsule_mp3' = IF written = "mp3" THEN "new" ELSE "none"

\* The same with the PDF regenerated whatever the flags.
WantsPdf_Always(audio_only, pdf_only) == TRUE

\* regenerate_capsule: which artifacts the flags ask for.
WantsPdf(audio_only, pdf_only) ==
    IF audio_only THEN FALSE
    ELSE IF pdf_only THEN TRUE
    ELSE ~audio_only /\ ~pdf_only

WantsAudio(audio_only, pdf_only) ==
    IF audio_only THEN TRUE
    ELSE IF pdf_only THEN FALSE
    ELSE ~audio_only /\ ~pdf_only

\* regenerate_capsule(capsule_dir, audio_only, pdf_only)
RegenerateCapsule ==
    /\ pcR = "idle"
    /\ \E audio_only \in BOOLEAN, pdf_only \in BOOLEAN, loaded \in BOOLEAN :
        /\ capsule_call' = <<[audio_only |-> audio_only, pdf_only |-> pdf_only,
                              loaded |-> loaded, pdf_before |-> pdf_file,
                              mp3_before |-> capsule_mp3]>>
        /\ IF ~loaded
           THEN /\ capsule_report' = <<[audio_success |-> FALSE, pdf_success |-> FALSE]>>
                /\ regen_calls' = <<>>
                /\ UNCHANGED <<capsule_mp3, pdf_file, pdf_txt_file, formatter_args,
                               pdf_tried, typesetting, regen_result>>
           ELSE /\ IF WantsAudio(audio_only, pdf_only)
                   THEN RegenerateAudioCall
                   ELSE UNCHANGED capsule_mp3
                /\ IF WantsPdf(audio_only, pdf_only)
                   THEN RegeneratePdfCall
                   ELSE UNCHANGED <<pdf_file, pdf_txt_file, formatter_args,
                                    pdf_tried, typesetting, regen_result>>
                /\ regen_calls' =
                       (IF WantsAudio(audio_only, pdf_only) THEN <<"audio">> ELSE <<>>)
                       \o (IF WantsPdf(audio_only, pdf_only) THEN <<"pdf">> ELSE <<>>)
                /\ capsule_report' = <<[audio_success |-> TRUE, pdf_success |-> TRUE]>>
    /\ pcR' = "done"
    /\ UNCHANGED <<script_txt, edited, formatVars, splitVars, batchVars, audioVars,
                   assembleVars>>

NextRegen == EditScript \/ RegeneratePdf \/ RegenerateCapsule

SpecRegen == InitRegen /\ [][NextRegen]_vars

\* ----------------------------------------------------- process_all_capsules
\* A row is what happens when it is processed:
\*   "ok"        every step succeeds
\*   "nolinks"   _extract_valid_links finds no link
\*   "nocontent" no link yields any content
\*   "raises"    a step raises (content generation, a file write, ...)
RowKinds == {"ok", "nolinks", "nocontent", "raises"}
Sheets == UNION {[1..m -> RowKinds] : m \in 0..MaxRows}

\* process_single_capsule: False on the two early returns and from the
\* except clause, True at the end of the try block.
ProcessSingleCapsule(row_data) == row_data = "ok"

InitBatch ==
    /\ rows_data \in Sheets
    /\ row_i = 0
    /\ attempted = <<>>
    /\ success_count = 0
    /\ error_count = 0
    /\ report = "none"
    /\ pcB = "loop"
    /\ IdleFormat
    /\ IdleSplit
    /\ IdleRegen
    /\ IdleAudio
    /\ IdleAssemble

\* One turn of the for loop.
ProcessRow ==
    /\ pcB = "loop"
    /\ row_i < Len(rows_data)
    /\ row_i' = row_i + 1
    /\ attempted' = Append(attempted, row_i + 1)
    /\ IF ProcessSingleCapsule(rows_data[row_i + 1])
       THEN success_count' = success_count + 1 /\ error_count' = error_count
       ELSE error_count' = error_count + 1 /\ success_count' = success_count
    /\ UNCHANGED <<rows_data, report, pcB, formatVars, splitVars, regenVars, audioVars,
                   assembleVars>>

\* _generate_summary_report: the lines before the success rate are written,
\* then success_count/len(rows_data) is computed.
GenerateSummaryReport ==
    /\ pcB = "loop"
    /\ row_i = Len(rows_data)
    /\ IF Len(rows_data) = 0
       THEN report' = "partial" /\ pcB' = "fatal"
       ELSE report' = "written" /\ pcB' = "done"
    /\ UNCHANGED <<rows_data, row_i, attempted, success_count, error_count,
                   formatVars, splitVars, regenVars, audioVars,
                   assembleVars>>

NextBatch == ProcessRow \/ GenerateSummaryReport

SpecBatch == InitBatch /\ [][NextBatch]_vars

\* ------------------------------------------------------------ generate_audio
SilenceMs == 500

Part(c)  == [t |-> "part", chunk |-> c, ms |-> 0]
Silence  == [t |-> "silence", chunk |-> 0, ms |-> SilenceMs]
OldAudio == [t |-> "old", chunk |-> 0, ms |-> 0]    \* the audio of an earlier run

\* The same with the pause added after every segment, the last one too.
PauseAfter_EveryPart(i, n) == TRUE

\* if i < len(audio_parts) - 1 (i is the code's 0-based index)
PauseAfter(i, n) == i < n - 1

\* _concatenate_audio_parts with pydub: combined, as a list of pieces.
RECURSIVE Combine(_, _)
Combine(parts, i) ==
    IF i >= Len(parts) THEN <<>>
    ELSE <<parts[i + 1]>>
         \o (IF PauseAfter(i, Len(parts)) THEN <<Silence>> ELSE <<>>)
         \o Combine(parts, i + 1)

InitAudio ==
    /\ client \in BOOLEAN
    /\ pydub \in {"ok", "missing", "error"}
    /\ text_chunks \in {[i \in 1..n |-> i] : n \in 1..MaxChunks}
    /\ requests = <<>>
    /\ audio_parts = <<>>
    /\ mp3_file \in {<<>>, <<OldAudio>>}
    /\ audio_result = "none"
    /\ audio_txt_file = "none"
    /\ capsule_result = "none"
    /\ pcA = "start"
    /\ IdleFormat
    /\ IdleSplit
    /\ IdleRegen
    /\ IdleBatch
    /\ IdleAssemble

\* The same without the test of the client: the chunks are synthesized.
GenerateAudioNoClient_Synthesizes ==
    /\ pcA = "start"
    /\ ~client
    /\ pcA' = "synth"
    /\ UNCHANGED <<client, pydub, text_chunks, requests, audio_parts, mp3_file,
                   audio_result, audio_txt_file, capsule_result,
                   formatVars, splitVars, regenVars, batchVars,
                   assembleVars>>

\* No client: the placeholder text file, nothing else.
GenerateAudioNoClient ==
    /\ pcA = "start"
    /\ ~client
    /\ audio_txt_file' = "new"
    /\ audio_result' = "txt"
    /\ pcA' = "done"
    /\ UNCHANGED <<client, pydub, text_chunks, requests, audio_parts, mp3_file,
                   capsule_result, formatVars, splitVars, regenVars, batchVars,
                   assembleVars>>

\* The text is preprocessed and split; the chunks are then synthesized.
GenerateAudioStart ==
    /\ pcA = "start"
    /\ client
    /\ pcA' = "synth"
    /\ UNCHANGED <<client, pydub, text_chunks, requests, audio_parts, mp3_file,
                   audio_result, audio_txt_file, capsule_result,
                   formatVars, splitVars, regenVars, batchVars,
                   assembleVars>>

\* _synthesize_speech on the next chunk answers.
SynthesizeChunk ==
    /\ pcA = "synth"
    /\ Len(requests) < Len(text_chunks)
    /\ requests' = Append(requests, text_chunks[Len(requests) + 1])
    /\ audio_parts' = Append(audio_parts, Part(text_chunks[Len(requests) + 1]))
    /\ UNCHANGED <<client, pydub, text_chunks, mp3_file, audio_result, audio_txt_file,
                   capsule_result, pcA, formatVars, splitVars, regenVars, batchVars,
                   assembleVars>>

\* The same saving the parts synthesized so far at the audio path.
SynthesizeFails_SavesParts ==
    /\ pcA = "synth"
    /\ Len(requests) < Len(text_chunks)
    /\ requests' = Append(requests, text_chunks[Len(requests) + 1])
    /\ mp3_file' = audio_parts
    /\ audio_txt_file' = "new"
    /\ audio_result' = "txt"
    /\ pcA' = "done"
    /\ UNCHANGED <<client, pydub, text_chunks, audio_parts, capsule_result,
                   formatVars, splitVars, regenVars, batchVars,
                   assembleVars>>

\* _synthesize_speech on the next chunk raises: the except clause of
\* generate_audio writes the placeholder.
SynthesizeFails ==
    /\ pcA = "synth"
    /\ Len(requests) < Len(text_chunks)
    /\ requests' = Append(requests, text_chunks[Len(requests) + 1])
    /\ audio_txt_file' = "new"
    /\ audio_result' = "txt"
    /\ pcA' = "done"
    /\ UNCHANGED <<client, pydub, text_chunks, audio_parts, mp3_file, capsule_result,
                   formatVars, splitVars, regenVars, batchVars,
                   assembleVars>>

\* One chunk: _save_audio.
SaveAudio ==
    /\ pcA = "synth"
    /\ Len(text_chunks) = 1
    /\ Len(audio_parts) = 1
    /\ mp3_file' = audio_parts
    /\ audio_result' = "mp3"
    /\ pcA' = "done"
    /\ UNCHANGED <<client, pydub, text_chunks, requests, audio_parts, audio_txt_file,
                   capsule_result, formatVars, splitVars, regenVars, batchVars,
                   assembleVars>>

\* Several chunks: _concatenate_audio_parts.
ConcatenateAudioParts ==
    /\ pcA = "synth"
    /\ Len(text_chunks) > 1
    /\ Len(audio_parts) = Len(text_chunks)
    /\ CASE pydub = "ok" ->
              /\ mp3_file' = Combine(audio_parts, 0)
              /\ audio_result' = "mp3"
              /\ audio_txt_file' = audio_txt_file
         [] pydub = "missing" ->
              /\ mp3_file' = audio_parts
              /\ audio_result' = "mp3"
              /\ audio_txt_file' = audio_txt_file
         [] pydub = "error" ->
              /\ mp3_file' = mp3_file
              /\ audio_result' = "txt"
              /\ audio_txt_file' = "new"
    /\ pcA' = "done"
    /\ UNCHANGED <<client, pydub, text_chunks, requests, audio_parts, capsule_result,
                   formatVars, splitVars, regenVars, batchVars,
                   assembleVars>>

\* process_single_capsule, the caller: it does not look at what generate_audio
\* returned and returns True.
ProcessSingleCapsuleReturns ==
    /\ pcA = "done"
    /\ capsule_result = "none"
    /\ capsule_result' = "true"
    /\ UNCHANGED <<client, pydub, text_chunks, requests, audio_parts, mp3_file,
                   audio_result, audio_txt_file, pcA,
                   formatVars, splitVars, regenVars, batchVars,
                   assembleVars>>

NextAudio ==
    \/ GenerateAudioNoClient
    \/ GenerateAudioStart
    \/ SynthesizeChunk
    \/ SynthesizeFails
    \/ SaveAudio
    \/ ConcatenateAudioParts
    \/ ProcessSingleCapsuleReturns

SpecAudio == InitAudio /\ [][NextAudio]_vars

\* --------------------------------------------------- _assemble_final_script
\* The main script is the list main_script.split('\n\n') of its pieces: "text"
\* a paragraph, "padded" one with white space around it, "ws" white space
\* only; n identifies the text.  The final script is a list of such pieces
\* and of quiz blocks, joined by '\n\n'.
PieceKinds == {"text", "padded", "ws"}
MainScripts ==
    UNION {{[j \in 1..m |-> [k |-> ks[j], n |-> j]] : ks \in [1..m -> PieceKinds]}
           : m \in 0..MaxSections}

\* The quiz records, numbered in list order or against it.
QcmLists ==
    UNION {{[j \in 1..m |-> [question_number |-> j]],
            [j \in 1..m |-> [question_number |-> m + 1 - j]]} : m \in 0..MaxQcm}

\* p.strip()
StripPiece(p) == IF p.k = "padded" THEN [p EXCEPT !.k = "text"] ELSE p

\* [p.strip() for p in main_script.split('\n\n') if p.strip()]
Paragraphs(pieces) ==
    LET kept == SelectSeq(pieces, LAMBDA p : p.k # "ws")
    IN [j \in 1..Len(kept) |-> StripPiece(kept[j])]

\* _format_qcm_for_script: the block of a record, its marker carrying the
\* record's number.
FormatQcmForScript(qcm) ==
    [k |-> "qcm", n |-> qcm.question_number,
     lines |-> <<"marker", "blank", "sit", "blank", "que", "blank", "optA", "optB",
                 "optC", "optD", "blank", "ans", "expl">>]

\* The positions of insertion.
Positions(total_sections, nqcm) ==
    IF nqcm = 2 THEN {total_sections \div 3, (2 * total_sections) \div 3}
    ELSE IF nqcm = 3
    THEN {total_sections \div 4, total_sections \div 2, (3 * total_sections) \div 4}
    ELSE {total_sections \div 2}

\* for i, paragraph in enumerate(paragraphs)
RECURSIVE AssembleLoop(_, _, _, _, _, _)
AssembleLoop(paragraphs, j, positions, qcms, qcm_index, final) ==
    IF j >= Len(paragraphs) THEN [final_script |-> final, qcm_index |-> qcm_index]
    ELSE LET withPara == Append(final, paragraphs[j + 1]) IN
        IF j \in positions /\ qcm_index < Len(qcms)
        THEN AssembleLoop(paragraphs, j + 1, positions, qcms, qcm_index + 1,
                          Append(withPara, FormatQcmForScript(qcms[qcm_index + 1])))
        ELSE AssembleLoop(paragraphs, j + 1, positions, qcms, qcm_index, withPara)

\* The same without the records left over after the loop.
RemainingQcm_None(qcms, qcm_index) == <<>>

\* while qcm_index < len(qcm_data)
RemainingQcm(qcms, qcm_index) ==
    [j \in 1..(Len(qcms) - qcm_index) |-> FormatQcmForScript(qcms[qcm_index + j])]

AssembleFinalScript(pieces, qcms) ==
    LET paragraphs == Paragraphs(pieces) IN
    IF Len(paragraphs) < 3
    THEN pieces \o [j \in 1..Len(qcms) |-> FormatQcmForScript(qcms[j])]
    ELSE LET r == AssembleLoop(paragraphs, 0, Positions(Len(paragraphs), Len(qcms)),
                               qcms, 0, <<>>)
         IN r.final_script \o RemainingQcm(qcms, r.qcm_index)

InitAssemble ==
    /\ main_script \in MainScripts
    /\ qcm_data \in QcmLists
    /\ final_script = <<>>
    /\ pcM = "start"
    /\ IdleFormat
    /\ IdleSplit
    /\ IdleRegen
    /\ IdleBatch
    /\ IdleAudio

CallAssembleFinalScript ==
    /\ pcM = "start"
    /\ final_script' = AssembleFinalScript(main_script, qcm_data)
    /\ pcM' = "done"
    /\ UNCHANGED <<main_script, qcm_data, formatVars, splitVars, regenVars, batchVars,
                   audioVars>>

NextAssemble == CallAssembleFinalScript

SpecAssemble == InitAssemble /\ [][NextAssemble]_vars

\* ------------------------------------------------------- the formatter run
InitFormat ==
    /\ shape \in Shapes
    /\ script = Narrative(shape)
    /\ body = <<>>
    /\ scanned_blocks = <<>>
    /\ residual_paragraphs = <<>>
    /\ pcF = "start"
    /\ processed_text = <<>>
    /\ speech_chunks = <<>>
    /\ pcN = "start"
    /\ latex_body = <<>>
    /\ pcL = "off"
    /\ IdleSplit
    /\ IdleRegen
    /\ IdleBatch
    /\ IdleAudio
    /\ IdleAssemble

\* generate_pdf formats the script of the capsule.
CallFormatScriptSimple ==
    /\ pcF = "start"
    /\ body' = FormatScriptSimple(script)
    /\ scanned_blocks' = QcmBlocksOf(script)
    /\ residual_paragraphs' = ParagraphsOf(script)
    /\ pcF' = "done"
    /\ UNCHANGED <<shape, script, processed_text, speech_chunks, pcN, latex_body, pcL,
                   splitVars, regenVars, batchVars, audioVars,
                   assembleVars>>

\* generate_audio, called after generate_pdf on the same script, prepares the
\* text and splits it with the default budget.
CallPreprocessTextForSpeech ==
    /\ pcF = "done"
    /\ pcN = "start"
    /\ processed_text' = PreprocessTextForSpeech(ScriptText(script))
    /\ speech_chunks' = SplitTextForTts(SpeechChars(processed_text'), DefaultMaxChars)
    /\ pcN' = "done"
    /\ UNCHANGED <<shape, script, body, scanned_blocks, residual_paragraphs, pcF,
                   latex_body, pcL, splitVars, regenVars, batchVars, audioVars,
                   assembleVars>>

NextFormat == CallFormatScriptSimple \/ CallPreprocessTextForSpeech

SpecFormat == InitFormat /\ [][NextFormat]_vars

\* ------------------------------------------------ the _create_latex_content run
LatexShapes == UNION {[1..m -> {"P", "T", "TP", "QF"}] : m \in 0..MaxLatexUnits}

InitLatex ==
    /\ shape \in LatexShapes
    /\ script = Narrative(shape)
    /\ body = <<>>
    /\ scanned_blocks = <<>>
    /\ residual_paragraphs = <<>>
    /\ pcF = "idle"
    /\ processed_text = <<>>
    /\ speech_chunks = <<>>
    /\ pcN = "idle"
    /\ latex_body = <<>>
    /\ pcL = "start"
    /\ IdleSplit
    /\ IdleRegen
    /\ IdleBatch
    /\ IdleAudio
    /\ IdleAssemble

\* _generate_pdf_latex builds the document of a capsule whose script_data
\* holds the script: process_markdown, latex_escape, _format_script_simple.
CallCreateLatexContent ==
    /\ pcL = "start"
    /\ latex_body' = FormatScriptSimple(CreateLatexContentScript([script |-> script]))
    /\ pcL' = "done"
    /\ UNCHANGED <<shape, script, body, scanned_blocks, residual_paragraphs, pcF,
                   processed_text, speech_chunks, pcN, splitVars, regenVars,
                   batchVars, audioVars, assembleVars>>

NextLatex == CallCreateLatexContent

SpecLatex == InitLatex /\ [][NextLatex]_vars

\* ======================================================= document formatter
\* ------------------------------------------------- vocabulary of the claims
RECURSIVE UnitStart(_, _)
UnitStart(sh, j) ==
    IF j = 1 THEN 1 ELSE UnitStart(sh, j - 1) + Len(UnitLines(sh[j - 1])) + 1

UnitOf(sh, n) ==
    CHOOSE j \in 1..Len(sh) :
        UnitStart(sh, j) <= n /\ n < UnitStart(sh, j) + Len(UnitLines(sh[j]))

OnlyUnits(sh, allowed) == \A j \in 1..Len(sh) : sh[j] \in allowed
UnitsOfKind(sh, u) == {j \in 1..Len(sh) : sh[j] = u}

IsBox(it) == it.t = "qcmbox"
IsNarrativeItem(it) == it.t \in {"para", "textbf", "subsection"}
Boxes(b) == SelectSeq(b, IsBox)

RECURSIVE FlattenLines(_)
FlattenLines(items) ==
    IF items = <<>> THEN <<>> ELSE items[1].lines \o FlattenLines(Tail(items))

BodyNarrativeLines(b) == FlattenLines(SelectSeq(b, IsNarrativeItem))

\* The lines of the narrative paragraphs (units P and T) of a script, in order.
RECURSIVE ExpectedNarrative(_, _, _)
ExpectedNarrative(sh, s, j) ==
    IF j > Len(sh) THEN <<>>
    ELSE (IF sh[j] \in {"P", "T"} THEN <<s[UnitStart(sh, j)]>> ELSE <<>>)
         \o ExpectedNarrative(sh, s, j + 1)

\* The quiz unit of the complete block whose marker is line m of the script.
ExpectedBox(s, m) ==
    [situation |-> <<s[m + 2]>>, question |-> <<s[m + 3]>>,
     options |-> <<s[m + 4], s[m + 5], s[m + 6], s[m + 7]>>,
     correct_answer |-> <<s[m + 9]>>, explanation |-> <<s[m + 10]>>]

RECURSIVE ExpectedBoxes(_, _, _)
ExpectedBoxes(sh, s, j) ==
    IF j > Len(sh) THEN <<>>
    ELSE (IF sh[j] = "QF" THEN <<Item("qcmbox", <<>>, ExpectedBox(s, UnitStart(sh, j)))>>
          ELSE <<>>)
         \o ExpectedBoxes(sh, s, j + 1)

\* A body with each line named by its unit and its place in the unit, so that
\* the bodies of two scripts can be compared unit by unit.
AbsLines(sh, ls) ==
    [i \in 1..Len(ls) |->
        [k |-> ls[i].k, u |-> UnitOf(sh, ls[i].n),
         o |-> ls[i].n - UnitStart(sh, UnitOf(sh, ls[i].n))]]

AbsBody(sh, b) ==
    [i \in 1..Len(b) |->
        [t |-> b[i].t, lines |-> AbsLines(sh, b[i].lines),
         box |-> [situation |-> AbsLines(sh, b[i].box.situation),
                  question |-> AbsLines(sh, b[i].box.question),
                  options |-> AbsLines(sh, b[i].box.options),
                  correct_answer |-> AbsLines(sh, b[i].box.correct_answer),
                  explanation |-> AbsLines(sh, b[i].box.explanation)]]]

RECURSIVE DropUnit(_, _)
DropUnit(ls, j) ==
    IF ls = <<>> THEN <<>>
    ELSE (IF ls[1].u = j THEN <<>> ELSE <<ls[1]>>) \o DropUnit(Tail(ls), j)

\* The abstract body without the explanation of unit j's block.
WithoutExplanationOf(ab, j) ==
    [i \in 1..Len(ab) |->
        [ab[i] EXCEPT !.box.explanation = DropUnit(@, j)]]

Replace(sh, j, u) == [sh EXCEPT ![j] = u]

\* ---------------------------------------------------------------- C1
\* C1 (as claimed): in a narrative of paragraphs and complete quiz blocks,
\* every narrative paragraph outside the blocks appears exactly once in the
\* body, in its original relative order.
C1_NarrativeKept ==
    (pcF = "done" /\ OnlyUnits(shape, {"P", "T", "QF"}))
        => BodyNarrativeLines(body) = ExpectedNarrative(shape, script, 1)

\* ---------------------------------------------------------------- C2
\* C2: a narrative of paragraphs and k complete quiz blocks yields exactly k
\* quiz units, the i-th one carrying the fields of the i-th block.
C2_QuizConservation ==
    (pcF = "done" /\ OnlyUnits(shape, {"P", "T", "QF"}))
        => Boxes(body) = ExpectedBoxes(shape, script, 1)

C2_Witness ==
    /\ pcF = "done"
    /\ shape = <<"P", "QF", "P", "QF">>
    /\ Len(Boxes(body)) = 2
    /\ Boxes(body)[1].box.situation = <<script[5]>>
    /\ Boxes(body)[2].box.situation = <<script[19]>>

\* ---------------------------------------------------------------- C7
\* C7 (as claimed): paragraph, complete block, paragraph is rendered as the
\* first paragraph, the quiz unit, the second paragraph.
C7_QuizBetweenParagraphs ==
    (pcF = "done" /\ shape = <<"P", "QF", "P">>)
        => body = <<Item("para", <<script[1]>>, EmptyBox),
                    Item("qcmbox", <<>>, ExpectedBox(script, 3)),
                    Item("para", <<script[15]>>, EmptyBox)>>

\* ---------------------------------------------------------------- C9
\* C9 (as claimed): when one block lacks its explanation line, the body is the
\* body of the same narrative with that block complete, less that explanation:
\* the block's own quiz unit, and everything after it, are rendered alike.
C9_MissingExplanationDegrades ==
    pcF = "done" =>
        \A j \in 1..Len(shape) :
            (shape[j] = "QN" /\ OnlyUnits(Replace(shape, j, "QF"), {"P", "T", "QF"}))
            => LET complete == Replace(shape, j, "QF") IN
               AbsBody(shape, body) =
                   WithoutExplanationOf(
                       AbsBody(complete, FormatScriptSimple(Narrative(complete))), j)

\* ---------------------------------------------------------------- C10
\* C10 (as claimed): a block in which no field is recognized produces no quiz
\* unit: the body holds one quiz unit per block that has fields, none empty.
C10_UnparseableBlockDropped ==
    (pcF = "done" /\ OnlyUnits(shape, {"P", "T", "QF", "QE"})
                  /\ UnitsOfKind(shape, "QE") # {})
        => /\ Len(Boxes(body)) = Cardinality(UnitsOfKind(shape, "QF"))
           /\ \A i \in 1..Len(body) : IsBox(body[i]) => body[i].box # EmptyBox

\* ---------------------------------------------------------------- C11
\* C11 (as claimed): for the empty narrative and for a narrative of white
\* space only, the formatter returns the empty body and the normalizer followed
\* by the splitter returns exactly one segment, the empty one.
C11_EmptyNarrativeEmptyBody ==
    (pcF = "done" /\ pcN = "done" /\ OnlyUnits(shape, {"W"}))
        => /\ body = <<>>
           /\ speech_chunks = << <<>> >>

\* ---------------------------------------------------------------- C12
\* The same lines with the answer label spelt without its accent, and back.
Unaccent(ls) ==
    [i \in 1..Len(ls) |-> IF ls[i].k = "ans" THEN [ls[i] EXCEPT !.k = "ansU"] ELSE ls[i]]

Accent(ls) ==
    [i \in 1..Len(ls) |-> IF ls[i].k = "ansU" THEN [ls[i] EXCEPT !.k = "ans"] ELSE ls[i]]

AccentBox(b) ==
    [situation |-> Accent(b.situation), question |-> Accent(b.question),
     options |-> Accent(b.options), correct_answer |-> Accent(b.correct_answer),
     explanation |-> Accent(b.explanation)]

\* The fields the formatter extracts and renders from the text of a block.
RenderedFields(full_text) ==
    FormatQcmSimple(Strip(ExtractPureQcmFromBlock(full_text)))

\* C12 (as claimed): for every block of every narrative, the fields extracted
\* and rendered are the same when the answer label is spelt 'REPONSE CORRECTE:'
\* instead of 'RÉPONSE CORRECTE:', wherever the label line stands in the block,
\* and the normalizer's output is the same for both spellings.
C12_AnswerLabelSpelling ==
    (pcF = "done" /\ pcN = "done")
        => /\ \A j \in 1..Len(scanned_blocks) :
                AccentBox(RenderedFields(Unaccent(scanned_blocks[j].full_text)))
                    = RenderedFields(scanned_blocks[j].full_text)
           /\ PreprocessTextForSpeech(ScriptText(Unaccent(script))) = processed_text

\* ---------------------------------------------------------------- C13
\* The number of occurrences of a token in a text.
Count(t, x) == Cardinality({i \in 1..Len(t) : t[i] = x})

\* C13 (as claimed): the normalizer run on its own output leaves the number of
\* 2 s pauses (before the answer) and of 1 s pauses (before the explanation)
\* as it was after the first run.
C13_SecondRunAddsNoPause ==
    pcN = "done" =>
        LET second == PreprocessTextForSpeech(processed_text) IN
        /\ Count(second, Break(2000)) = Count(processed_text, Break(2000))
        /\ Count(second, Break(1000)) = Count(processed_text, Break(1000))

\* ---------------------------------------------------------------- C15
\* C15: whatever the numbers of extracted blocks and of residual paragraphs,
\* the quiz units of the body are the extracted blocks, each once and in
\* their original order, and a quiz unit that does not directly follow a
\* paragraph has only quiz units after it: it stands after the last paragraph.
C15_EveryBlockOnceInOrder ==
    pcF = "done" =>
        /\ Boxes(body) =
               [j \in 1..Len(scanned_blocks) |-> QcmBox(scanned_blocks[j].content)]
        /\ \A i \in 1..Len(body) :
               (IsBox(body[i]) /\ (i = 1 \/ IsBox(body[i - 1])))
                   => \A j \in i..Len(body) : IsBox(body[j])

C15_Witness ==
    /\ pcF = "done"
    /\ Len(residual_paragraphs) = 1
    /\ Len(scanned_blocks) = 2
    /\ Len(body) = 3
    /\ IsNarrativeItem(body[1])
    /\ body[2] = QcmBox(scanned_blocks[1].content)
    /\ body[3] = QcmBox(scanned_blocks[2].content)
    /\ body[2] # body[3]

\* ---------------------------------------------------------------- C18
\* The least element of a non-empty set of numbers.
Least(S) == CHOOSE x \in S : \A y \in S : x <= y

\* C18 (as claimed): a block opened by a marker line runs to the end of input
\* when no EXPLICATION: line follows the marker; otherwise it is closed at the
\* first bold title or '===' line after that EXPLICATION: line, or at the end
\* of input when there is none.  The closing line is not part of the block,
\* neither of its text nor of its span of lines, and a closing marker opens the
\* next block.  Line numbers are 1-based here, start_line and end_line 0-based.
C18_BlockClosedAfterExplanation ==
    (pcF = "done" /\ script # EmptyString) =>
        LET L == CleanArtifacts(script) IN
        \A j \in 1..Len(scanned_blocks) :
            LET b == scanned_blocks[j]
                expls == {e \in (b.start_line + 2)..Len(L) : IsExplication(L[e])}
            IN IF expls = {} THEN b.end_line = Len(L)
               ELSE LET closers == {c \in (Least(expls) + 1)..Len(L) :
                                        IsBoldTitle(L[c]) \/ StartsEq(L[c])}
                        close == IF closers = {} THEN Len(L) + 1 ELSE Least(closers)
                    IN /\ b.end_line = close - 1
                       /\ b.full_text = SubSeq(L, b.start_line + 1, close - 1)
                       /\ (closers # {} /\ IsMarker(L[close])) =>
                              /\ j < Len(scanned_blocks)
                              /\ scanned_blocks[j + 1].start_line = b.end_line

\* ---------------------------------------------------------------- C19
\* The number of body items that stand before the i-th quiz unit and are not
\* quiz units: the paragraph the unit comes after.
ParagraphsBefore(b, i) ==
    LET p == CHOOSE q \in 1..Len(b) :
                 IsBox(b[q]) /\ Cardinality({r \in 1..q : IsBox(b[r])}) = i
    IN p - i

\* C19 (as claimed): with P residual paragraphs and k blocks, the i-th block
\* comes immediately after the paragraph of index i*P/(k+1), rounded down or
\* up, whenever such an index lies within 1..P.
C19_EvenlySpacedInsertion ==
    pcF = "done" =>
        LET P == Len(residual_paragraphs)
            k == Len(scanned_blocks) IN
        \A i \in 1..k :
            LET lo == (i * P) \div (k + 1)
                hi == IF (i * P) % (k + 1) = 0 THEN lo ELSE lo + 1
                allowed == {lo, hi} \cap (1..P)
            IN allowed # {} => ParagraphsBefore(body, i) \in allowed

\* ---------------------------------------------------------------- C20
\* The text of an option line is empty.
EmptyOption(l) == l.k = "optE"

\* C20 (as claimed): a quiz unit of the body has at least one field, and
\* every item of its option list has a text.
C20_NoEmptyLabelOrItem ==
    pcF = "done" =>
        \A i \in 1..Len(body) :
            IsBox(body[i]) =>
                /\ body[i].box # EmptyBox
                /\ \A o \in 1..Len(body[i].box.options) :
                       ~EmptyOption(body[i].box.options[o])

\* ---------------------------------------------------------------- C28
\* Line i (1-based) lies in the span [start_line, end_line) of block b.
InSpan(i, b) == b.start_line < i /\ i <= b.end_line

\* The lines outside every span, in order.
OutsideSpans(ls, blocks) ==
    LET keep == [i \in 1..Len(ls) |->
                    IF \E j \in 1..Len(blocks) : InSpan(i, blocks[j])
                    THEN <<>> ELSE <<ls[i]>>]
    IN Flat(keep)

\* C28: after the scan the spans [start_line, end_line) are not empty, lie
\* within the input, start at a marker line and come in increasing order
\* without overlap; the deletion from last to first leaves exactly the lines
\* outside the spans, of which the residual paragraphs are made.
C28_SpansDisjointOrdered ==
    (pcF = "done" /\ script # <<[k |-> "blank", n |-> 1]>>) =>
        LET ls == CleanArtifacts(script)
            b == scanned_blocks IN
        /\ \A j \in 1..Len(b) :
               /\ 0 <= b[j].start_line
               /\ b[j].start_line < b[j].end_line
               /\ b[j].end_line <= Len(ls)
               /\ IsMarker(ls[b[j].start_line + 1])
        /\ \A j \in 1..(Len(b) - 1) : b[j].end_line <= b[j + 1].start_line
        /\ RemoveBlocks(ls, Reverse(b)) = OutsideSpans(ls, b)
        /\ residual_paragraphs = SplitParagraphs(OutsideSpans(ls, b), <<>>, <<>>)

C28_Witness ==
    /\ pcF = "done"
    /\ Len(scanned_blocks) >= 2
    /\ scanned_blocks[1].start_line > 0
    /\ scanned_blocks[1].end_line < scanned_blocks[2].start_line
    /\ scanned_blocks[2].end_line = Len(CleanArtifacts(script))
    /\ Len(residual_paragraphs) >= 2

\* ---------------------------------------------------------------- C27
\* The letter under which the j-th item of the list is displayed (\Alph*).
DisplayedLetter(j) == j

\* C27 (as claimed): in every quiz unit of the body each option is displayed
\* under the letter it carries in the block, whatever the number and order of
\* the block's option lines.
C27_OptionsKeepLetters ==
    pcF = "done" =>
        \A i \in 1..Len(body) :
            body[i].t = "qcmbox" =>
                \A j \in 1..Len(body[i].box.options) :
                    DisplayedLetter(j) = OptionLetter(body[i].box.options[j])

\* ---------------------------------------------------------------- C22
\* Lines i, i+1, i+2 of the script are blank, between two lines of text.
BlankRunAt(ls, i) ==
    /\ i > 1
    /\ i + 2 < Len(ls)
    /\ \A j \in i..(i + 2) : IsBlank(ls[j])
    /\ \E j \in 1..(i - 1) : ~IsBlank(ls[j])
    /\ \E j \in (i + 3)..Len(ls) : ~IsBlank(ls[j])

\* A blank line of the text: two new lines with at most spaces in between.
RECURSIVE BlankLineFrom(_, _)
BlankLineFrom(t, i) ==
    /\ i <= Len(t)
    /\ IsWs(t[i])
    /\ (t[i].c = "nl" \/ BlankLineFrom(t, i + 1))

HasBlankLine(t) ==
    \E i \in 1..Len(t) : t[i].c = "nl" /\ BlankLineFrom(t, i + 1)

\* C22 (as claimed): in the output of _preprocess_text_for_speech no two
\* characters of white space follow each other, and where the input has three
\* or more blank lines in a row the output has a blank line.
C22_WhitespaceCollapsed ==
    pcN = "done" =>
        /\ \A i \in 1..(Len(processed_text) - 1) :
               ~(IsWs(processed_text[i]) /\ IsWs(processed_text[i + 1]))
        /\ (\E i \in 1..Len(script) : BlankRunAt(script, i))
               => HasBlankLine(processed_text)

\* ---------------------------------------------------------------- C21
\* The body holds an item of type t made of the text of line l.
RenderedAs(b, l, t) ==
    \E i \in 1..Len(b) :
        /\ b[i].t = t
        /\ \E j \in 1..Len(b[i].lines) : b[i].lines[j].n = l.n

\* C21 (as claimed): in the body that _create_latex_content builds, a bold-only
\* paragraph whose text starts with 'Point ' or 'Transition' is a sub-heading
\* with that text, and any other bold-only paragraph is emphasis with its text.
C21_BoldTitlesRendered ==
    pcL = "done" =>
        \A i \in 1..Len(script) :
            /\ script[i].k = "ptitle" => RenderedAs(latex_body, script[i], "subsection")
            /\ script[i].k = "title" => RenderedAs(latex_body, script[i], "textbf")

\* ============================================================ TTS splitter
RECURSIVE JoinChunks(_)
JoinChunks(cs) ==
    IF cs = <<>> THEN <<>>
    ELSE IF Len(cs) = 1 THEN cs[1]
    ELSE cs[1] \o <<" ">> \o JoinChunks(Tail(cs))

HasSpace(t) == \E i \in 1..Len(t) : IsSpace(t[i])

\* ---------------------------------------------------------------- C3
\* C3 (as claimed): the segments joined in list order hold the words of the
\* input, each once and in the input's order.
C3_SegmentsRebuildText ==
    pcS = "done" => Words(JoinChunks(chunks)) = Words(text)

\* ---------------------------------------------------------------- C4
\* C4: a segment is longer than the budget only if it is one single word
\* that is itself longer than the budget.
C4_SegmentBudget ==
    pcS = "done" =>
        \A i \in 1..Len(chunks) :
            Len(chunks[i]) <= max_chars \/ ~HasSpace(chunks[i])

C4_Witness ==
    /\ pcS = "done"
    /\ Len(text) > max_chars
    /\ \E i \in 1..Len(chunks) : Len(chunks[i]) > max_chars /\ ~HasSpace(chunks[i])
    /\ \E i \in 1..Len(chunks) : Len(chunks[i]) <= max_chars /\ HasSpace(chunks[i])

\* ---------------------------------------------------------------- C14
\* Scenario 2 in proportion: the budget, an input half as long again, and
\* sentences far shorter than the budget (4000, 6000 and 500 in the scenario).
ScenarioBudget   == MaxBudget
ScenarioLength   == (3 * MaxBudget) \div 2
ScenarioSentence == MaxBudget \div 3

Sentences(t) == SplitSentences(t, <<>>, <<>>)

IsScenario2 ==
    /\ max_chars = ScenarioBudget
    /\ Len(text) = ScenarioLength
    /\ \A i \in 1..Len(Sentences(text)) : Len(Sentences(text)[i]) <= ScenarioSentence

\* The white space of the text is single spaces between its words.
SingleSpaced(t) ==
    /\ t # <<>>
    /\ ~IsSpace(t[1])
    /\ ~IsSpace(t[Len(t)])
    /\ \A i \in 1..(Len(t) - 1) : ~(IsSpace(t[i]) /\ IsSpace(t[i + 1]))

WordsOf(t) == SplitWords(t, <<>>, <<>>)

Occurrences(ws, w) == Cardinality({i \in 1..Len(ws) : ws[i] = w})

\* C23: the segments are cut at white space of the input only: the words of
\* the segments are the words of the input, each as often as in the input,
\* whether or not a word or its sentence is longer than the budget.
C23_NoWordIsCut ==
    pcS = "done" =>
        LET cw == WordsOf(JoinChunks(chunks))
            tw == WordsOf(text) IN
        /\ Len(cw) = Len(tw)
        /\ \A i \in 1..Len(tw) : Occurrences(cw, tw[i]) = Occurrences(tw, tw[i])

C23_Witness ==
    /\ pcS = "done"
    /\ Len(chunks) >= 2
    /\ \E i \in 1..Len(chunks) :
           /\ Len(chunks[i]) > max_chars
           /\ \E j \in 1..Len(WordsOf(text)) : WordsOf(text)[j] = chunks[i]
    /\ \E i \in 1..Len(chunks) : HasSpace(chunks[i])

\* ---------------------------------------------------------------- C24
\* The pause annotations of a segment are whole: '<break' is followed by its
\* 'time="..."/>' in the segment, which in turn follows a '<break'.
WholeAnnotations(chunk) ==
    \A i \in 1..Len(chunk) :
        /\ chunk[i] = "<" => (i + 2 <= Len(chunk) /\ chunk[i + 2] = ">")
        /\ chunk[i] = ">" => (i > 2 /\ chunk[i - 2] = "<")

\* C24 (as claimed): every segment that _split_text_for_tts makes of a text of
\* the normalizer holds whole pause annotations only.
C24_AnnotationsNotCut ==
    pcS = "done" => \A i \in 1..Len(chunks) : WholeAnnotations(chunks[i])

\* ============================================================ regeneration
\* ---------------------------------------------------------------- C5
\* C5 (as claimed): when regenerate_pdf runs on an edited script.txt and the
\* document formatter is reached, the formatter is given the text of
\* script.txt (bold markup converted and escaped as _create_latex_content does).
C5_EditedScriptReachesFormatter ==
    (pcR = "done" /\ edited /\ formatter_args # <<>>)
        => formatter_args = <<LatexEscape(ProcessMarkdown(script_txt))>>

\* ---------------------------------------------------------------- C17
\* The PDF, and its text fallback, are as they were before the call.
PdfUntouched(call) ==
    /\ pdf_file = call.pdf_before
    /\ pdf_txt_file = "none"
    /\ pdf_tried = <<>>

Mp3Untouched(call) == capsule_mp3 = call.mp3_before

\* C17 (as claimed): with audio_only only the audio is regenerated, the PDF is
\* untouched and pdf_success is True; with pdf_only only the PDF is
\* regenerated, the audio is untouched and audio_success is True; with neither
\* flag both are regenerated.
C17_FlagsSelectArtifacts ==
    (pcR = "done" /\ capsule_call # <<>>) =>
        LET call == capsule_call[1]
            result == capsule_report[1] IN
        /\ call.audio_only =>
               (regen_calls = <<"audio">> /\ PdfUntouched(call) /\ result.pdf_success)
        /\ call.pdf_only =>
               (regen_calls = <<"pdf">> /\ Mp3Untouched(call) /\ result.audio_success)
        /\ (~call.audio_only /\ ~call.pdf_only) => regen_calls = <<"audio", "pdf">>

\* C17 (amended): the same when the capsule's data could be loaded, pdf_only
\* selecting the PDF when audio_only is not set with it; when both flags are
\* set audio_only wins, and when the data cannot be loaded nothing is
\* regenerated, both files are untouched and both successes are False.
C17_FlagsSelectArtifactsWhenLoaded ==
    (pcR = "done" /\ capsule_call # <<>>) =>
        LET call == capsule_call[1]
            result == capsule_report[1] IN
        /\ (call.loaded /\ call.audio_only) =>
               (regen_calls = <<"audio">> /\ PdfUntouched(call) /\ result.pdf_success)
        /\ (call.loaded /\ call.pdf_only /\ ~call.audio_only) =>
               (regen_calls = <<"pdf">> /\ Mp3Untouched(call) /\ result.audio_success)
        /\ (call.loaded /\ ~call.audio_only /\ ~call.pdf_only) =>
               regen_calls = <<"audio", "pdf">>
        /\ ~call.loaded =>
               /\ regen_calls = <<>>
               /\ PdfUntouched(call)
               /\ Mp3Untouched(call)
               /\ ~result.audio_success
               /\ ~result.pdf_success

C17_Witness ==
    /\ pcR = "done"
    /\ capsule_call # <<>>
    /\ capsule_call[1].loaded
    /\ capsule_call[1].audio_only
    /\ ~capsule_call[1].pdf_only
    /\ capsule_call[1].pdf_before = "old"
    /\ capsule_call[1].mp3_before = "old"
    /\ pdf_file = "old"
    /\ capsule_mp3 = "new"
    /\ regen_calls = <<"audio">>
    /\ capsule_report[1].pdf_success

\* ---------------------------------------------------------------- C25
\* C25 (as claimed): when regenerate_pdf has returned True capsule.pdf exists,
\* and when regenerate_audio has returned True capsule.mp3 exists: a run that
\* fell back to the text file or to the placeholder reports a failure.
C25_SuccessMeansArtifact ==
    pcR = "done" =>
        /\ regen_result = "true" => pdf_file # "none"
        /\ (capsule_call # <<>> /\ regen_calls # <<>> /\ regen_calls[1] = "audio"
                /\ capsule_report[1].audio_success) => capsule_mp3 # "none"

\* ---------------------------------------------------------------- C29
\* The back end that produced a PDF, if one did: pdflatex when both passes
\* left capsule.pdf, reportlab when it was reached (pdflatex absent or its
\* first pass failing) and is installed and builds the document.
PdfProducedBy(env) ==
    IF env.latex = "ok" THEN {"latex"}
    ELSE IF env.latex \in {"absent", "fail"} /\ env.reportlab = "present"
    THEN {"reportlab"}
    ELSE {}

Last(s) == s[Len(s)]

C6_BatchCompletes ==
    pcB \in {"done", "fatal"} =>
        /\ attempted = [i \in 1..Len(rows_data) |-> i]
        /\ success_count + error_count = Len(rows_data)
        /\ report = "written"
        /\ pcB = "done"

\* =================================================================== audio
\* The n parts in order with one silence between each two of them.
RECURSIVE Interleaved(_)
Interleaved(cs) ==
    IF cs = <<>> THEN <<>>
    ELSE IF Len(cs) = 1 THEN <<Part(cs[1])>>
    ELSE <<Part(cs[1]), Silence>> \o Interleaved(Tail(cs))

PartsOnly(cs) == [i \in 1..Len(cs) |-> Part(cs[i])]

\* ---------------------------------------------------------------- C8
\* C8 (as claimed): when generate_audio has written the audio of n >= 2
\* segments, the segments were synthesized in list order and the file is the
\* n parts in order with n-1 silences of 500 ms, one between each two.
C8_SilenceBetweenParts ==
    (pcA = "done" /\ audio_result = "mp3" /\ Len(text_chunks) >= 2)
        => /\ requests = text_chunks
           /\ mp3_file = Interleaved(text_chunks)

\* C8 (amended): the same when pydub can be imported; when it cannot, the file
\* is the n parts in order with no silence at all.
C8_SilenceBetweenPartsWithPydub ==
    (pcA = "done" /\ audio_result = "mp3" /\ Len(text_chunks) >= 2)
        => /\ requests = text_chunks
           /\ pydub = "ok" => mp3_file = Interleaved(text_chunks)
           /\ pydub = "missing" => mp3_file = PartsOnly(text_chunks)

C8_Witness ==
    /\ pcA = "done"
    /\ audio_result = "mp3"
    /\ pydub = "ok"
    /\ Len(text_chunks) = 3
    /\ requests = <<1, 2, 3>>
    /\ Len(mp3_file) = 5
    /\ mp3_file[2] = Silence
    /\ mp3_file[5] = Part(3)

\* ---------------------------------------------------------------- C16
\* C16: without a speech-synthesis client no synthesis request is ever issued
\* and the file at the audio path is never written; when generate_audio has
\* returned it has written the placeholder text file and returned its path;
\* process_single_capsule, when it returns, returns True.
C16_PlaceholderWithoutClient ==
    ~client =>
        /\ requests = <<>>
        /\ audio_parts = <<>>
        /\ mp3_file \in {<<>>, <<OldAudio>>}
        /\ pcA = "done" => (audio_result = "txt" /\ audio_txt_file = "new")
        /\ capsule_result # "none" => (pcA = "done" /\ capsule_result = "true")

C16_Witness ==
    /\ ~client
    /\ pcA = "done"
    /\ requests = <<>>
    /\ mp3_file = <<>>
    /\ audio_result = "txt"
    /\ audio_txt_file = "new"
    /\ capsule_result = "true"

\* ---------------------------------------------------------------- C26
\* A synthesis request raised: one more request was issued than parts returned.
SynthesisRaised == Len(requests) > Len(audio_parts)

\* The file at the audio path as generate_audio found it.
Untouched(f) == f \in {<<>>, <<OldAudio>>}

\* C26: when the synthesis of a segment raises, generate_audio writes nothing
\* at the audio path and returns the path of the placeholder; whenever the
\* file at the audio path has been written every segment had been synthesized
\* and the file holds the part of every segment.
C26_NoPartialAudio ==
    /\ SynthesisRaised =>
           /\ pcA = "done"
           /\ audio_result = "txt"
           /\ audio_txt_file = "new"
           /\ Untouched(mp3_file)
    /\ ~Untouched(mp3_file) =>
           /\ ~SynthesisRaised
           /\ requests = text_chunks
           /\ \A i \in 1..Len(text_chunks) :
                  \E j \in 1..Len(mp3_file) : mp3_file[j] = Part(text_chunks[i])

C26_Witness ==
    /\ pcA = "done"
    /\ client
    /\ Len(text_chunks) = 3
    /\ Len(requests) = 2
    /\ Len(audio_parts) = 1
    /\ audio_result = "txt"
    /\ audio_txt_file = "new"
    /\ mp3_file = <<OldAudio>>

\* ============================================================== assembly
\* ---------------------------------------------------------------- C30
IsQcmBlock(x) == x.k = "qcm"

\* C30: the script _assemble_final_script returns holds the formatted block
\* of every quiz record once, in list order, and every paragraph of the main
\* script once, in the order of the main script, for any number of paragraphs
\* (fewer than 3 included) and of records (none included).
C30_EveryBlockAndParagraphOnce ==
    pcM = "done" =>
        LET blocks == SelectSeq(final_script, IsQcmBlock)
            texts == Paragraphs(SelectSeq(final_script, LAMBDA x : ~IsQcmBlock(x)))
        IN /\ blocks = [j \in 1..Len(qcm_data) |-> FormatQcmForScript(qcm_data[j])]
           /\ texts = Paragraphs(main_script)

C30_Witness ==
    /\ pcM = "done"
    /\ Len(Paragraphs(main_script)) >= 4
    /\ Len(qcm_data) = 4
    /\ qcm_data[1].question_number = 4
    /\ \E j \in 1..(Len(final_script) - 1) :
           IsQcmBlock(final_script[j]) /\ ~IsQcmBlock(final_script[j + 1])
    /\ IsQcmBlock(final_script[Len(final_script)])
    /\ IsQcmBlock(final_script[Len(final_script) - 1])

====
